---- MODULE Spec2Model ----
(***************************************************************************)
(* Frame presentation and synchronisation of src/triangle/triangle.c:      *)
(* main's loop, render_init, render_draw, render_swapchain_create /        *)
(* _destroy / _recreate and render_destroy, together with the GPU queue    *)
(* and the display surface they talk to.                                   *)
(*                                                                         *)
(* The CPU side is one thread (main).  render_draw has two blocking calls  *)
(* (vkWaitForFences, vkAcquireNextImageKHR); it is modelled as the steps   *)
(* DrawWait, DrawAcquire and DrawFinish, ordered by pc, so that GPU        *)
(* completions can fall before, between and after them.  The GPU is        *)
(* GpuComplete.  The surface's answers (capabilities, call results) are    *)
(* inputs of the steps that ask for them.                                  *)
(***************************************************************************)
EXTENDS Integers, Sequences, FiniteSets, TLC

\* ------------------------------------------------------------------------
\* Program constant and bounds of the model
\* ------------------------------------------------------------------------
CONCURRENT_FRAMES == 3

\* largest minImageCount a surface reports (so chains have 2..MaxMinImageCount+1 images)
MaxMinImageCount == 3
\* cap on the number of submissions outstanding on the queue
MaxInflight == 4

Slots == 0 .. (CONCURRENT_FRAMES - 1)

Extents == {"800x600", "1024x768"}

\* VkSurfaceCapabilitiesKHR (the fields the program reads) and the
\* availability of VK_PRESENT_MODE_MAILBOX_KHR on the surface
SurfaceCaps ==
    [minImageCount : 1 .. MaxMinImageCount, currentExtent : Extents, mailbox : BOOLEAN]

\* VkResult values of the three calls of render_draw whose result matters
AcquireResults ==
    {"VK_SUCCESS", "VK_SUBOPTIMAL_KHR", "VK_ERROR_OUT_OF_DATE_KHR", "VK_ERROR_SURFACE_LOST_KHR"}
SubmitResults == {"VK_SUCCESS", "VK_ERROR_OUT_OF_HOST_MEMORY"}
PresentResults ==
    {"VK_SUCCESS", "VK_SUBOPTIMAL_KHR", "VK_ERROR_OUT_OF_DATE_KHR", "VK_ERROR_SURFACE_LOST_KHR"}
StaleCodes == {"VK_SUBOPTIMAL_KHR", "VK_ERROR_OUT_OF_DATE_KHR"}

Range(s) == {s[i] : i \in 1 .. Len(s)}

RECURSIVE Reverse(_)
Reverse(s) == IF s = <<>> THEN <<>> ELSE Append(Reverse(Tail(s)), Head(s))

RECURSIVE Restrict(_, _)
\* the subsequence of s whose elements are in S
Restrict(s, S) ==
    IF s = <<>> THEN <<>>
    ELSE IF Head(s) \in S THEN <<Head(s)>> \o Restrict(Tail(s), S)
    ELSE Restrict(Tail(s), S)

VARIABLES
    phase,        \* "boot" | "running" | "exited" | "aborted" (die) | "crashed" |
                  \* "undefined" (running on after undefined behaviour)
    pc,           \* position of main: "init" | "poll" | "waited" | "acquired" | "end"
    caps,         \* the surface's answer to the last capability query
    sc,           \* rh->sc_imgc and rh->sc_extent of the live chain
    alloc,        \* live objects and host arrays of the chain render_handles points to
    leaked,       \* objects of earlier chains that are still allocated
    createLog,    \* objects in the order the last render_swapchain_create made them
    destroyLog,   \* objects in the order the last render_swapchain_destroy released them
    semc,         \* number of semaphore pairs allocated by vulkan_synchronization
    syncAlloc,    \* live fences and semaphores
    fence,        \* frm_inflight[s] is signaled
    frm_index,    \* rh->frm_index
    queue,        \* submissions the GPU has not completed yet, oldest first
    local,        \* the running render_draw call: the wait's result, res, img_index
    call,         \* the calls the current (or last) render_draw made, present's result,
                  \* and the index of the uniform storage it wrote (-1: none)
    busyDestroy,  \* objects that were destroyed while GPU work was outstanding
    av_signaled,  \* i with img_available[i] signaled by an acquire and no wait submitted on it
    drained       \* the device-idle wait of the current call had work to wait for

vars == <<phase, pc, caps, sc, alloc, leaked, createLog, destroyLog, semc,
          syncAlloc, fence, frm_index, queue, local, call, busyDestroy, av_signaled,
          drained>>

NoLocal == [wait |-> "-", res |-> "-", img_index |-> -1]
NoCall == [steps |-> <<>>, present |-> "-", ubo |-> -1]

\* ------------------------------------------------------------------------
\* Chain lifecycle
\* ------------------------------------------------------------------------

\* vulkan_swapchain with the extent of the chain being replaced kept
vulkan_swapchain_keeps_extent(c) ==
    [sc_imgc |-> c.minImageCount + 1,
     sc_extent |-> IF sc.sc_extent = "none" THEN c.currentExtent ELSE sc.sc_extent]

\* vulkan_swapchain: extent and requested image count from the capability
\* query; vulkan_imageviews reads the image count back from the swapchain
\* (the driver creates the number of images requested).
vulkan_swapchain(c) ==
    [sc_imgc |-> c.minImageCount + 1, sc_extent |-> c.currentExtent]

\* the search for the mailbox mode left out
mailbox_exists_unchecked(c) == TRUE

\* vulkan_swapchain's search of the surface's present modes for
\* VK_PRESENT_MODE_MAILBOX_KHR; the function dies when it is 0
mailbox_exists(c) == c.mailbox

\* render_handles after vulkan_swapchain has died for the missing mode: the
\* extent is written before the search, nothing else is
vulkan_swapchain_died(c) == [sc EXCEPT !.sc_extent = c.currentExtent]

\* objects made by render_swapchain_create, in the order of its calls
\* ("vk:" a Vulkan object or the group of per-image objects made by one
\* loop, "host:" a malloc'ed array kept in render_handles)
render_swapchain_create ==
    << "vk:sc",
       "host:sc_imgs", "host:sc_imageviews", "vk:imageviews",
       "vk:renderpass",
       "vk:pipeline_layout", "vk:pipeline",
       "host:sc_framebufs", "vk:framebufs",
       "host:sc_uniform_bufs", "host:sc_uniform_bufs_mem",
       "vk:uniform_bufs", "vk:uniform_bufs_mem",
       "vk:descpool",
       "host:sc_descsets", "vk:descsets",
       "host:sc_cmdbufs", "vk:cmdbufs" >>

\* render_swapchain_destroy with the swapchain destroyed ahead of its views
render_swapchain_destroy_sc_first ==
    << "vk:descpool", "vk:descsets",
       "vk:uniform_bufs", "vk:uniform_bufs_mem",
       "host:sc_uniform_bufs", "host:sc_uniform_bufs_mem",
       "vk:cmdbufs",
       "vk:framebufs", "host:sc_framebufs",
       "vk:pipeline", "vk:pipeline_layout",
       "vk:renderpass",
       "vk:sc",
       "vk:imageviews", "host:sc_imageviews",
       "host:sc_imgs", "host:sc_cmdbufs" >>

\* objects released by render_swapchain_destroy after its vkDeviceWaitIdle,
\* in the order of its statements (vkDestroyDescriptorPool frees the
\* descriptor sets allocated from the pool)
render_swapchain_destroy ==
    << "vk:descpool", "vk:descsets",
       "vk:uniform_bufs", "vk:uniform_bufs_mem",
       "host:sc_uniform_bufs", "host:sc_uniform_bufs_mem",
       "vk:cmdbufs",
       "vk:framebufs", "host:sc_framebufs",
       "vk:pipeline", "vk:pipeline_layout",
       "vk:renderpass",
       "vk:imageviews", "host:sc_imageviews",
       "vk:sc",
       "host:sc_imgs", "host:sc_cmdbufs" >>

\* render_swapchain_destroy without the wait
vkDeviceWaitIdle_skipped(q) == q

\* vkDeviceWaitIdle: returns when every submission on the queue has completed
vkDeviceWaitIdle(q) == <<>>

\* completed submissions leaving their fences as they were
FencesSignaledBy_none(f, q, q2) == f

\* fences after the submissions of q that are no longer in q2 have completed
FencesSignaledBy(f, q, q2) ==
    [s \in Slots |->
        f[s] \/ (\E i \in 1 .. Len(q) : q[i].slot = s /\ i <= Len(q) - Len(q2))]

\* fence_info without the flag
fence_info_no_flags == [flags |-> {}]

\* the VkFenceCreateInfo of vulkan_synchronization
fence_info == [flags |-> {"VK_FENCE_CREATE_SIGNALED_BIT"}]

\* vkCreateFence: whether the fence it makes starts signaled
vkCreateFence(info) == "VK_FENCE_CREATE_SIGNALED_BIT" \in info.flags

\* fences and semaphores made by vulkan_synchronization(image_count)
vulkan_synchronization(image_count) ==
    {<<"frm_inflight", i>> : i \in Slots}
        \cup {<<"img_available", i>> : i \in 0 .. (image_count - 1)}
        \cup {<<"img_rendered", i>> : i \in 0 .. (image_count - 1)}
        \cup {<<"host:img_available", 0>>, <<"host:img_rendered", 0>>}

\* fences and semaphores render_destroy destroys
render_destroy_sync(image_count) ==
    {<<"frm_inflight", i>> : i \in Slots}
        \cup {<<"img_available", i>> : i \in 0 .. (image_count - 1)}
        \cup {<<"img_rendered", i>> : i \in 0 .. (image_count - 1)}
        \cup {<<"host:img_available", 0>>, <<"host:img_rendered", 0>>}

\* the slot advanced modulo the chain's image count
NextSlot_by_image_count(s) == (s + 1) % sc.sc_imgc

\* rh->frm_index = (rh->frm_index + 1) % CONCURRENT_FRAMES
NextSlot(s) == (s + 1) % CONCURRENT_FRAMES

\* every result but VK_SUCCESS taken as stale
IsStale_any_but_success(res) == res # "VK_SUCCESS"

\* only VK_ERROR_OUT_OF_DATE_KHR taken as stale
IsStale_out_of_date_only(res) == res = "VK_ERROR_OUT_OF_DATE_KHR"

\* res == VK_ERROR_OUT_OF_DATE_KHR || res == VK_SUBOPTIMAL_KHR
IsStale(res) == res = "VK_ERROR_OUT_OF_DATE_KHR" \/ res = "VK_SUBOPTIMAL_KHR"

\* images the presentation engine can hand out: those no outstanding
\* submission renders to
FreeImages == {k \in 0 .. (sc.sc_imgc - 1) : \A i \in 1 .. Len(queue) : queue[i].img # k}

Init ==
    /\ phase = "boot"
    /\ pc = "init"
    /\ caps = [minImageCount |-> 0, currentExtent |-> "none", mailbox |-> FALSE]
    /\ sc = [sc_imgc |-> 0, sc_extent |-> "none"]
    /\ alloc = {}
    /\ leaked = {}
    /\ createLog = <<>>
    /\ destroyLog = <<>>
    /\ semc = 0
    /\ syncAlloc = {}
    /\ fence = [s \in Slots |-> FALSE]
    /\ frm_index = 0
    /\ queue = <<>>
    /\ local = NoLocal
    /\ call = NoCall
    /\ busyDestroy = {}
    /\ av_signaled = {}
    /\ drained = FALSE

\* the effect of render_swapchain_create on the chain state, the surface
\* answering the capability query with c and a the objects still allocated
\* when it starts: every handle and pointer in render_handles is overwritten,
\* so what was still allocated behind one is lost
ChainCreate(c, a) ==
    /\ caps' = c
    /\ sc' = vulkan_swapchain(c)
    /\ createLog' = render_swapchain_create
    /\ alloc' = Range(render_swapchain_create)
    /\ leaked' = leaked \cup a

\* the effect of render_swapchain_destroy on the queue: the idle wait, then
\* the releases; also destroyed, by the caller right after it
ChainDestroy(also) ==
    LET q2 == vkDeviceWaitIdle(queue) IN
    /\ drained' = (queue # <<>>)
    /\ queue' = q2
    /\ fence' = FencesSignaledBy(fence, queue, q2)
    /\ destroyLog' = render_swapchain_destroy
    /\ busyDestroy' = busyDestroy \cup
                        (IF q2 # <<>> THEN Range(render_swapchain_destroy) \cup also ELSE {})

\* what render_swapchain_destroy leaves allocated
AllocAfterDestroy == alloc \ Range(render_swapchain_destroy)

\* render_init, up to and including render_swapchain_create and
\* vulkan_synchronization; dies when the mailbox present mode is missing
render_init ==
    /\ phase = "boot" /\ pc = "init"
    /\ \E c \in SurfaceCaps :
       IF ~mailbox_exists(c)
       THEN /\ phase' = "aborted"
            /\ pc' = "end"
            /\ caps' = c
            /\ sc' = vulkan_swapchain_died(c)
            /\ UNCHANGED <<alloc, leaked, createLog, destroyLog, semc, syncAlloc,
                           fence, frm_index, queue, local, call, busyDestroy,
                           av_signaled, drained>>
       ELSE /\ ChainCreate(c, alloc)
            /\ semc' = sc'.sc_imgc
            /\ syncAlloc' = vulkan_synchronization(sc'.sc_imgc)
            /\ fence' = [s \in Slots |-> vkCreateFence(fence_info)]
            /\ phase' = "running"
            /\ pc' = "poll"
            /\ UNCHANGED <<destroyLog, frm_index, queue, local, call, busyDestroy,
                           av_signaled, drained>>

\* one iteration of main's loop up to the return of vkWaitForFences on
\* frm_inflight[frm_index].  The wait returns at once on a signaled fence;
\* on an unsignaled one it has run into its timeout (a completion in time
\* is GpuComplete before this step).  render_draw does not look at the
\* result.
DrawWait ==
    /\ phase = "running" /\ pc = "poll"
    /\ local' = [NoLocal EXCEPT
                    !.wait = IF fence[frm_index] THEN "VK_SUCCESS" ELSE "VK_TIMEOUT"]
    /\ call' = [NoCall EXCEPT !.steps = <<"wait">>]
    /\ pc' = "waited"
    /\ drained' = FALSE
    /\ UNCHANGED <<phase, caps, sc, alloc, leaked, createLog, destroyLog, semc,
                   syncAlloc, fence, frm_index, queue, busyDestroy, av_signaled>>

\* the process is killed by an access through a garbage handle or index
Crash ==
    /\ phase' = "crashed"
    /\ pc' = "end"
    /\ call' = [call EXCEPT !.steps = call.steps \o <<"crash">>]
    /\ UNCHANGED <<caps, sc, alloc, leaked, createLog, destroyLog, semc, syncAlloc,
                   fence, frm_index, queue, local, busyDestroy, av_signaled, drained>>

\* the semaphore render_draw passes to vkAcquireNextImageKHR is not one the
\* call may be given: img_available[frm_index] lies beyond the allocated
\* pairs, is still signaled from an earlier acquire, or has the wait of an
\* outstanding submission pending on it
AcquireSemaphoreMisused ==
    \/ frm_index >= semc
    \/ frm_index \in av_signaled
    \/ \E i \in 1 .. Len(queue) : queue[i].wait_sem = frm_index

\* vkAcquireNextImageKHR returns.  It blocks (UINT64_MAX) until the
\* presentation engine has an image to hand out, so a result that carries
\* an image needs a free one; with the image it hands out the signal of
\* img_available[frm_index].  On an error result img_index is left
\* uninitialised: any index, in range or not (sc.sc_imgc stands for the
\* out-of-range ones).  With a semaphore it may not be given the call is
\* undefined: it goes on as with a valid one, or the process dies.
DrawAcquire ==
    /\ phase = "running" /\ pc = "waited"
    /\ \/ /\ \E res \in AcquireResults :
             \E k \in (-1) .. sc.sc_imgc :
                /\ CASE res \in {"VK_SUCCESS", "VK_SUBOPTIMAL_KHR"} -> k \in FreeImages
                     [] res = "VK_ERROR_OUT_OF_DATE_KHR" -> k = -1
                     [] OTHER -> k \in 0 .. sc.sc_imgc
                /\ local' = [local EXCEPT !.res = res, !.img_index = k]
                /\ av_signaled' = IF res \in {"VK_SUCCESS", "VK_SUBOPTIMAL_KHR"}
                                  THEN av_signaled \cup {frm_index}
                                  ELSE av_signaled
          /\ call' = [call EXCEPT !.steps = call.steps \o <<"acquire">>]
          /\ pc' = "acquired"
          /\ UNCHANGED <<phase, caps, sc, alloc, leaked, createLog, destroyLog, semc,
                         syncAlloc, fence, frm_index, queue, busyDestroy, drained>>
       \/ /\ AcquireSemaphoreMisused
          /\ Crash

\* render_draw after an acquire that reported a stale chain:
\* render_swapchain_recreate and return; the create dies in
\* vulkan_swapchain when the surface has lost the mailbox mode
DrawStale ==
    /\ ChainDestroy({})
    /\ \E c \in SurfaceCaps :
          IF ~mailbox_exists(c)
          THEN /\ phase' = "aborted"
               /\ pc' = "end"
               /\ caps' = c
               /\ sc' = vulkan_swapchain_died(c)
               /\ alloc' = AllocAfterDestroy
               /\ call' = [call EXCEPT !.steps = call.steps \o <<"recreate", "die">>]
               /\ UNCHANGED <<leaked, createLog, local>>
          ELSE /\ ChainCreate(c, AllocAfterDestroy)
               /\ call' = [call EXCEPT !.steps = call.steps \o <<"recreate">>]
               /\ local' = NoLocal
               /\ phase' = phase
               /\ pc' = "poll"
    /\ UNCHANGED <<semc, syncAlloc, frm_index, av_signaled>>

\* the uniform storage of the current slot written
render_ubo_update_by_slot(img_index) == frm_index

\* render_ubo_update(rh, img_index): the uniform storage whose contents it
\* overwrites, sc_uniform_bufs_mem[img_index]
render_ubo_update(img_index) == img_index

\* a frame with its semaphores bound to the acquired image
Submission_by_image(s, k) ==
    [slot |-> s, img |-> k, reads_ubo |-> k,
     wait_sem |-> k, wait_stage |-> "COLOR_ATTACHMENT_OUTPUT", signal_sem |-> k,
     present_wait |-> k, present_img |-> k]

\* the frame render_draw hands to the queue from slot s for image k:
\* submit_info with the fence of vkQueueSubmit (slot) and the command
\* buffer sc_cmdbufs[k] (img), which vulkan_cmdbufs recorded to draw into
\* sc_framebufs[k] with sc_descsets[k] bound, the set vulkan_descsets
\* pointed at sc_uniform_bufs[k] (reads_ubo); then present_info
Submission(s, k) ==
    [slot |-> s, img |-> k, reads_ubo |-> k,
     wait_sem |-> s, wait_stage |-> "COLOR_ATTACHMENT_OUTPUT", signal_sem |-> s,
     present_wait |-> s, present_img |-> k]

\* render_draw after any other acquire: render_ubo_update, vkResetFences,
\* vkQueueSubmit (die unless VK_SUCCESS), vkQueuePresentKHR (result not
\* looked at), advance of frm_index.  After an acquire that failed the
\* frame is drawn on an index acquire never returned; the calls are made
\* all the same, and with an image presented that was not acquired nothing
\* that follows is defined.
DrawFrame(sres, pres) ==
    /\ Len(queue) < MaxInflight
    /\ LET s == frm_index
           st == call.steps \o <<"ubo", "reset", "submit">>
       IN
       /\ fence' = [fence EXCEPT ![s] = FALSE]
       /\ IF sres # "VK_SUCCESS"
          THEN /\ phase' = "aborted"
               /\ pc' = "end"
               /\ call' = [call EXCEPT !.steps = st \o <<"die">>,
                                       !.ubo = render_ubo_update(local.img_index)]
               /\ UNCHANGED <<queue, frm_index, local, av_signaled>>
          ELSE /\ queue' = Append(queue, Submission(s, local.img_index))
               /\ av_signaled' = av_signaled \ {s}
               /\ call' = [call EXCEPT !.present = pres,
                                       !.ubo = render_ubo_update(local.img_index),
                                       !.steps = st \o <<"present", "advance">>]
               /\ frm_index' = NextSlot(s)
               /\ IF local.res = "VK_SUCCESS"
                  THEN /\ local' = NoLocal
                       /\ phase' = phase
                       /\ pc' = "poll"
                  ELSE /\ local' = local
                       /\ phase' = "undefined"
                       /\ pc' = "end"
    /\ UNCHANGED <<caps, sc, alloc, leaked, createLog, destroyLog, semc,
                   syncAlloc, busyDestroy, drained>>

\* the rest of render_draw.  Indexing the per-image arrays with an index out
\* of range is undefined: the call goes on with what it read, or the
\* process dies.
DrawFinish ==
    /\ phase = "running" /\ pc = "acquired"
    /\ IF IsStale(local.res)
       THEN DrawStale
       ELSE \/ \E sres \in SubmitResults, pres \in PresentResults : DrawFrame(sres, pres)
            \/ /\ local.img_index >= sc.sc_imgc
               /\ Crash

\* the GPU completes the oldest outstanding submission and signals its fence
GpuComplete ==
    /\ phase = "running"
    /\ queue # <<>>
    /\ queue' = Tail(queue)
    /\ fence' = [fence EXCEPT ![Head(queue).slot] = TRUE]
    /\ UNCHANGED <<phase, pc, caps, sc, alloc, leaked, createLog, destroyLog, semc,
                   syncAlloc, frm_index, local, call, busyDestroy, av_signaled, drained>>

\* render_destroy after main's loop.  The loop ends after the render_draw of
\* the iteration that polled SDL_QUIT, so at least one call has returned.
\* render_swapchain_destroy, then the fences and the semaphores of
\* 0 .. sc_imgc-1; destroying semaphores beyond the allocated pairs is
\* undefined.
render_destroy ==
    /\ phase = "running" /\ pc = "poll" /\ call # NoCall
    /\ ChainDestroy({o[1] : o \in render_destroy_sync(sc.sc_imgc)})
    /\ alloc' = AllocAfterDestroy
    /\ syncAlloc' = syncAlloc \ render_destroy_sync(sc.sc_imgc)
    /\ \/ phase' = "exited"
       \/ sc.sc_imgc > semc /\ phase' = "crashed"
    /\ pc' = "end"
    /\ UNCHANGED <<caps, sc, leaked, createLog, semc, frm_index, local, call, av_signaled>>

Next ==
    \/ render_init
    \/ DrawWait
    \/ DrawAcquire
    \/ DrawFinish
    \/ GpuComplete
    \/ render_destroy

Spec == Init /\ [][Next]_vars

\* main calls render_init and then render_draw in every iteration of its
\* loop, and every call render_draw makes returns once it can; the GPU
\* completes the work submitted to it.  Nothing makes the user close the
\* window, so render_destroy has no fairness.
FairSpec ==
    /\ Spec
    /\ WF_vars(render_init)
    /\ WF_vars(DrawWait)
    /\ WF_vars(DrawAcquire)
    /\ WF_vars(DrawFinish)
    /\ WF_vars(GpuComplete)

\* ------------------------------------------------------------------------
\* Properties
\* ------------------------------------------------------------------------

\* the step is the part of render_draw that follows the acquire
FinishStep == pc = "acquired" /\ pc' # "acquired"

\* results of a call that are neither success nor one of the two stale codes
Failures == {"VK_ERROR_SURFACE_LOST_KHR", "VK_ERROR_OUT_OF_HOST_MEMORY"}

\* C1: whenever render_draw resets the current slot's fence, the fence is
\* signaled (it is not reset while the slot's earlier submission is still
\* outstanding); stated for the ticks whose acquire succeeded
C1_ResetOnlySignaledFence ==
    [][(FinishStep /\ local.res = "VK_SUCCESS" /\ "reset" \in Range(call'.steps))
          => fence[frm_index]]_vars

\* C2: while the program runs, at most CONCURRENT_FRAMES submissions are
\* outstanding on the GPU
C2_InflightAtMostSlots ==
    phase = "running" => Len(queue) <= CONCURRENT_FRAMES

\* C3: a render_draw whose fence wait ran into its timeout does not go on to
\* the acquire
C3_TimeoutStopsDraw ==
    local.wait = "VK_TIMEOUT" => "acquire" \notin Range(call.steps)

\* C4: a render_draw whose acquire reported out-of-date or suboptimal makes
\* the calls wait, acquire, recreate and no other: it rebuilds the chain
\* once, submits nothing, leaves no fence reset, keeps frm_index and
\* returns, unless the rebuild itself dies for the missing mailbox mode
C4_StaleAcquireShortCircuits ==
    [][(FinishStep /\ local.res \in StaleCodes) =>
          /\ \/ /\ call'.steps = <<"wait", "acquire", "recreate">>
                /\ phase' = "running" /\ pc' = "poll"
             \/ /\ call'.steps = <<"wait", "acquire", "recreate", "die">>
                /\ phase' = "aborted" /\ ~caps'.mailbox
          /\ call'.present = "-"
          /\ destroyLog' # <<>> /\ createLog' # <<>>
          /\ queue' = <<>>
          /\ \A s \in Slots : fence'[s]
          /\ frm_index' = frm_index]_vars

\* a stale draw that had outstanding frames to wait for has returned
C4_Witness ==
    /\ phase = "running" /\ pc = "poll"
    /\ call.steps = <<"wait", "acquire", "recreate">>
    /\ drained

\* C5: frm_index stays in 0 .. CONCURRENT_FRAMES-1; a step that submits a
\* frame (a completed tick) moves it to (frm_index + 1) mod
\* CONCURRENT_FRAMES and no other step changes it
C5_SlotAdvance ==
    /\ [](frm_index \in Slots)
    /\ [][IF Len(queue') > Len(queue)
          THEN frm_index' = (frm_index + 1) % CONCURRENT_FRAMES
          ELSE frm_index' = frm_index]_vars

\* a completed tick has wrapped frm_index from the last slot back to 0
C5_Witness ==
    /\ phase = "running"
    /\ frm_index = 0
    /\ "advance" \in Range(call.steps)
    /\ queue # <<>> /\ queue[Len(queue)].slot = CONCURRENT_FRAMES - 1

\* C6: nothing made by an earlier render_swapchain_create is still
\* allocated once the chain has been rebuilt
C6_NoLeakAcrossRebuild ==
    leaked = {}

\* C7: a rebuild leaves the chain with the image count (minImageCount + 1)
\* and the extent of the capability query it made itself, so that a rebuild
\* under the capabilities of the chain it replaces reproduces that chain's
\* image count and extent
C7_ChainMatchesLatestQuery ==
    [][(FinishStep /\ "recreate" \in Range(call'.steps) /\ phase' = "running") =>
          /\ sc'.sc_imgc = caps'.minImageCount + 1
          /\ sc'.sc_extent = caps'.currentExtent
          /\ (caps' = caps => sc' = sc)]_vars

\* the chain has been rebuilt with another image count and another extent
\* than it had at initialisation (semc is the initial image count)
C7_Witness ==
    /\ phase = "running"
    /\ "recreate" \in Range(call.steps)
    /\ sc.sc_imgc # semc
    /\ sc.sc_extent = "1024x768"

\* C8: no chain object, fence or semaphore is destroyed while a submission
\* is outstanding
C8_DestroyOnlyWhenIdle ==
    busyDestroy = {}

\* the program has shut down, and its last device-idle wait had outstanding
\* submissions to wait for
C8_Witness ==
    /\ phase = "exited"
    /\ drained
    /\ syncAlloc = {}

\* the stage of the chain's construction a Vulkan object belongs to
StageOf(o) ==
    CASE o = "vk:sc" -> "swapchain"
      [] o = "vk:imageviews" -> "views"
      [] o = "vk:renderpass" -> "renderpass"
      [] o \in {"vk:pipeline_layout", "vk:pipeline"} -> "pipeline"
      [] o = "vk:framebufs" -> "framebufs"
      [] o \in {"vk:uniform_bufs", "vk:uniform_bufs_mem"} -> "uniform"
      [] o \in {"vk:descpool", "vk:descsets"} -> "desc"
      [] o = "vk:cmdbufs" -> "cmdbufs"
      [] OTHER -> "host"

RECURSIVE Stages(_)
\* the stages of the Vulkan objects of a log, in the order they first appear
Stages(s) ==
    IF s = <<>> THEN <<>>
    ELSE LET rest == Stages(SubSeq(s, 1, Len(s) - 1))
             st == StageOf(s[Len(s)])
         IN IF st = "host" \/ st \in Range(rest) THEN rest ELSE Append(rest, st)

\* C9 as stated: render_swapchain_destroy releases the stages of the chain
\* in the reverse of the order render_swapchain_create made them
C9_StrictReverseOrder ==
    destroyLog # <<>> => Stages(destroyLog) = Reverse(Stages(createLog))

\* the stages render_swapchain_destroy releases in reverse of creation
ReverseReleased ==
    {"cmdbufs", "framebufs", "pipeline", "renderpass", "views", "swapchain"}

\* C9 amended: render_swapchain_destroy releases the descriptor pool with
\* its sets first and the per-image uniform storage second, and after them
\* the command buffers, framebuffers, pipeline, render pass, image views and
\* swapchain in the reverse of the order they were created in
C9_ReverseOrderAfterDescriptors ==
    destroyLog # <<>> =>
        Stages(destroyLog) =
            <<"desc", "uniform">> \o Reverse(Restrict(Stages(createLog), ReverseReleased))

\* a chain has been destroyed and its successor created
C9_Witness ==
    /\ phase = "running"
    /\ "recreate" \in Range(call.steps)
    /\ Len(destroyLog) = 17 /\ Len(createLog) = 18

\* C10: render_draw does not go on to advance the slot and keep running
\* after the present call failed with a code that is not a stale code
C10_PresentFailureStopsDraw ==
    ~(/\ phase = "running"
      /\ call.present \in Failures
      /\ "advance" \in Range(call.steps))

\* main has left its loop and called render_destroy
HasQuit ==
    /\ pc = "end"
    /\ phase \in {"exited", "crashed"}
    /\ <<"frm_inflight", 0>> \notin syncAlloc

\* the last render_draw call presented a frame
Presented == "present" \in Range(call.steps)

WaitStep == pc = "poll" /\ pc' = "waited"

\* C12: render_init leaves a chain of minImageCount + 1 images, for the
\* minImageCount the surface reported, and every frm_inflight fence
\* signaled; and the fence wait of a render_draw call on a slot that has
\* no submission outstanding returns VK_SUCCESS, the first call on each
\* slot included
C12_InitSignaledFences ==
    /\ [][(phase = "boot" /\ phase' = "running") =>
             /\ sc'.sc_imgc = caps'.minImageCount + 1
             /\ \A s \in Slots : fence'[s]]_vars
    /\ [][(WaitStep /\ \A i \in 1 .. Len(queue) : queue[i].slot # frm_index)
             => local'.wait = "VK_SUCCESS"]_vars

\* the first render_draw call on the last slot has waited, with the frames
\* of the first calls on the other slots still outstanding, on the chain
\* render_init made for minImageCount = 2
C12_Witness ==
    /\ phase = "running" /\ pc = "waited"
    /\ createLog # <<>> /\ destroyLog = <<>>
    /\ caps.minImageCount = 2 /\ sc.sc_imgc = 3
    /\ frm_index = CONCURRENT_FRAMES - 1
    /\ Len(queue) = CONCURRENT_FRAMES - 1
    /\ local.wait = "VK_SUCCESS"

\* C13: once render_destroy has run, no fence or semaphore made by
\* vulkan_synchronization is left, and what render_destroy destroyed was
\* made by vulkan_synchronization
C13_SyncObjectsAllDestroyed ==
    HasQuit =>
        /\ syncAlloc = {}
        /\ render_destroy_sync(sc.sc_imgc) \subseteq vulkan_synchronization(semc)

\* the step is one whose vulkan_swapchain queries the surface: render_init
\* or the rebuild of a stale render_draw
CreateStep == phase = "boot" \/ (FinishStep /\ IsStale(local.res))

\* C14: a chain creation that finds the surface without the mailbox present
\* mode ends the process with no swapchain of the new chain created; and
\* render_draw only ever runs on a chain created on a surface that had the
\* mode
C14_NoChainWithoutMailbox ==
    /\ [][(CreateStep /\ ~caps'.mailbox) =>
             /\ phase' = "aborted"
             /\ "vk:sc" \notin alloc']_vars
    /\ [](pc \in {"waited", "acquired"} => caps.mailbox /\ "vk:sc" \in alloc)

\* a rebuild has found the surface without the mailbox mode: the process
\* has died between the destroy of the old chain and the create of a new one
C14_Witness ==
    /\ phase = "aborted"
    /\ ~caps.mailbox
    /\ call.steps = <<"wait", "acquire", "recreate", "die">>
    /\ "vk:sc" \notin alloc

\* C15: while the program runs, no two outstanding frames wait on the same
\* img_available semaphore in their submission or on the same img_rendered
\* semaphore in their present
C15_SemaphoreAwaitedOnce ==
    phase = "running" =>
        \A i, j \in 1 .. Len(queue) :
            i # j => /\ queue[i].wait_sem # queue[j].wait_sem
                     /\ queue[i].present_wait # queue[j].present_wait

\* C16: in every render_draw call the semaphores indexed by frm_index are
\* among the pairs vulkan_synchronization allocated: frm_index is less than
\* their number
C16_SlotSemaphoresAllocated ==
    pc \in {"waited", "acquired"} => frm_index < semc

\* C17: apart from the bounded fence wait, render_draw never has to wait
\* for the GPU: when it calls vkAcquireNextImageKHR an image is free, so
\* that the call, which has no timeout, returns without blocking; stated
\* for the calls whose fence wait succeeded, in runs where every slot has
\* its semaphores allocated
C17_AcquireNeverBlocks ==
    (/\ phase = "running" /\ pc = "waited"
     /\ local.wait = "VK_SUCCESS"
     /\ semc >= CONCURRENT_FRAMES)
    => FreeImages # {}

\* the step is a part of render_draw outside render_swapchain_recreate
TickStepOutsideRecreate ==
    \/ WaitStep
    \/ pc = "waited" /\ pc' # "waited"
    \/ FinishStep /\ ~IsStale(local.res)

\* the step creates, destroys and replaces nothing of the chain
ChainObjectsUntouched ==
    /\ sc' = sc
    /\ alloc' = alloc /\ leaked' = leaked
    /\ createLog' = createLog /\ destroyLog' = destroyLog

StaleStep == FinishStep /\ IsStale(local.res)

\* the step leaves frm_index, the fences and semaphores that exist and
\* their number as they are
SlotPoolKept ==
    /\ frm_index' = frm_index
    /\ syncAlloc' = syncAlloc
    /\ semc' = semc

\* C19 as stated: a stale render_draw call leaves frm_index, the existing
\* fences and semaphores and the signaled state of every fence as they
\* were; fences and semaphores are made by render_init only and destroyed
\* by render_destroy only
C19_SlotPoolUnchanged ==
    /\ [][StaleStep => (SlotPoolKept /\ fence' = fence)]_vars
    /\ [][syncAlloc' # syncAlloc => (phase = "boot" \/ HasQuit')]_vars

\* C19 amended: a stale render_draw call leaves frm_index and the existing
\* fences and semaphores as they were and resets no fence; the fences of
\* the frames outstanding at its start have been signaled by the GPU
\* during its device-idle wait, so every fence is signaled when it
\* returns; fences and semaphores are made by render_init only and
\* destroyed by render_destroy only
C19_SlotPoolKeptFencesSignaled ==
    /\ [][StaleStep =>
             /\ SlotPoolKept
             /\ \A s \in Slots : fence[s] => fence'[s]
             /\ \A s \in Slots : fence'[s]]_vars
    /\ [][syncAlloc' # syncAlloc => (phase = "boot" \/ HasQuit')]_vars

\* a stale call on the last slot has returned; frames were outstanding at
\* its start, and every fence is signaled
C19_Witness ==
    /\ phase = "running" /\ pc = "poll"
    /\ "recreate" \in Range(call.steps)
    /\ drained
    /\ frm_index = CONCURRENT_FRAMES - 1
    /\ \A s \in Slots : fence[s]
    /\ syncAlloc = vulkan_synchronization(semc)

\* C20: a render_draw call whose acquire returned VK_SUCCESS with image k
\* on slot s = frm_index: the acquire has signaled img_available[s]; the
\* call goes on with uniform update, fence reset and submit, in this order,
\* and dies there if the submit fails; else the frame it has handed to the
\* queue runs sc_cmdbufs[k], waits on img_available[s] at the color
\* attachment output stage, signals img_rendered[s] and frm_inflight[s]
\* (which the reset has left unsignaled), and its present, made after the
\* submit, shows image k and waits on img_rendered[s]
C20_FrameUsesSlotSemaphores ==
    /\ [][(pc = "waited" /\ pc' = "acquired" /\ local'.res = "VK_SUCCESS")
             => av_signaled' = av_signaled \cup {frm_index}]_vars
    /\ [][(FinishStep /\ local.res = "VK_SUCCESS") =>
             LET s == frm_index
                 k == local.img_index
             IN /\ s \in av_signaled
                /\ ~fence'[s]
                /\ \/ /\ phase' = "aborted"
                      /\ call'.steps = <<"wait", "acquire", "ubo", "reset", "submit", "die">>
                      /\ queue' = queue
                   \/ /\ phase' = "running"
                      /\ call'.steps =
                            <<"wait", "acquire", "ubo", "reset", "submit", "present", "advance">>
                      /\ Len(queue') = Len(queue) + 1
                      /\ SubSeq(queue', 1, Len(queue)) = queue
                      /\ LET f == queue'[Len(queue')]
                         IN /\ f.img = k
                            /\ f.wait_sem = s
                            /\ f.wait_stage = "COLOR_ATTACHMENT_OUTPUT"
                            /\ f.signal_sem = s
                            /\ f.slot = s
                            /\ f.present_img = k
                            /\ f.present_wait = s]_vars

\* a frame has been drawn from slot 1 on image 0, acquired while the frame
\* of slot 0 on another image was outstanding
C20_Witness ==
    /\ phase = "running" /\ pc = "poll"
    /\ "present" \in Range(call.steps)
    /\ frm_index = 2
    /\ Len(queue) = 2
    /\ queue[2].slot = 1 /\ queue[2].img = 0
    /\ queue[2].wait_sem = 1 /\ queue[2].present_wait = 1 /\ queue[2].present_img = 0

\* C21: the part of render_draw after the acquire calls
\* render_swapchain_recreate exactly when the acquire returned
\* VK_ERROR_OUT_OF_DATE_KHR or VK_SUBOPTIMAL_KHR, and no other part of
\* render_draw calls it; a call whose present returned one of the two codes
\* has rebuilt nothing and has advanced frm_index
C21_RebuildIffAcquireStale ==
    /\ [][FinishStep =>
             ("recreate" \in Range(call'.steps) <=> local.res \in StaleCodes)]_vars
    /\ [][(WaitStep \/ (pc = "waited" /\ pc' # "waited")) =>
             ("recreate" \notin Range(call'.steps) /\ ChainObjectsUntouched)]_vars
    /\ [][(FinishStep /\ call'.present \in StaleCodes) =>
             /\ "recreate" \notin Range(call'.steps)
             /\ ChainObjectsUntouched
             /\ frm_index' = (frm_index + 1) % CONCURRENT_FRAMES]_vars

\* a call whose acquire succeeded and whose present reported the chain out
\* of date has returned: slot advanced, chain as render_init made it
C21_Witness ==
    /\ phase = "running" /\ pc = "poll"
    /\ call.present = "VK_ERROR_OUT_OF_DATE_KHR"
    /\ call.steps = <<"wait", "acquire", "ubo", "reset", "submit", "present", "advance">>
    /\ frm_index = 1
    /\ destroyLog = <<>>

\* C22: when render_draw is about to pass img_available[frm_index] to
\* vkAcquireNextImageKHR, no earlier acquire has left that semaphore
\* signaled with no wait submitted on it
C22_AcquireSemaphoreUnsignaled ==
    (phase = "running" /\ pc = "waited") => frm_index \notin av_signaled

\* C23: when render_draw writes uniform storage in render_ubo_update, no
\* submission is outstanding whose command buffer reads that storage,
\* whichever slot it was made from
C23_UniformWriteNotRead ==
    [][(FinishStep /\ "ubo" \in Range(call'.steps)) =>
          \A i \in 1 .. Len(queue) : queue[i].reads_ubo # call'.ubo]_vars

\* C24: render_draw goes on to the uniform update, the fence reset and the
\* submit only after an acquire that returned VK_SUCCESS, with an image
\* index of the chain
C24_SubmitOnlyAfterAcquireSuccess ==
    [][(FinishStep /\ Range(call'.steps) \cap {"ubo", "reset", "submit", "present"} # {}) =>
          /\ local.res = "VK_SUCCESS"
          /\ local.img_index \in 0 .. (sc.sc_imgc - 1)]_vars

====
